---- MODULE Spec2Model ----
(***************************************************************************)
(* siteManager: a single-user Flask dashboard (main.py) whose login is     *)
(* gated by the environment variables MAIL and PASSWD, and the backup      *)
(* directory helpers of Utility.py.                                        *)
(*                                                                         *)
(* A Python str is a sequence of one-character strings, None is the record *)
(* None, and a str value v is the record Str(v), so that "absent", "empty" *)
(* and "some text" are three different values; a list l is List(l).        *)
(***************************************************************************)
EXTENDS Integers, Sequences, FiniteSets, TLC

VARIABLES
    MAIL,       \* os.getenv("MAIL")
    PASSWD,     \* os.getenv("PASSWD")
    SECRET,     \* os.getenv("SECRET"), app.secret_key
    pc,         \* "startup", "serving" (app.run) or "exited"
    exitCode,   \* the process's exit status, None while it runs
    log,        \* the records written to debug.log
    session,    \* per client, the Flask session: a dict over {"user-mail"}
    request,    \* per client, the last request served (None before the first)
    before,     \* per client, the session as the last request found it
    response,   \* per client, the response to the last request
    posted,     \* per client, history: the credentials were POSTed to /login
                \* and no GET /logout followed
    fsExists,   \* Utility: the directory d_path names exists
    fsEntries,  \* Utility: the entries directly inside it
    d_path,     \* Utility: the argument of the call
    listing     \* Utility: the value ListConf returned (None before a call)

webVars == <<MAIL, PASSWD, SECRET, pc, exitCode, log, session, request, before,
             response, posted>>
utilVars == <<fsExists, fsEntries, d_path, listing>>
vars == <<MAIL, PASSWD, SECRET, pc, exitCode, log, session, request, before,
          response, posted, fsExists, fsEntries, d_path, listing>>

----------------------------------------------------------------------------
(* Values *)

None == [none |-> TRUE]
Str(s) == [str |-> s]
List(l) == [list |-> l]

\* The number of clients (browsers, each with its own session cookie).
NumClients == 2
Clients == 1..NumClients

\* What the environment may hold for MAIL, PASSWD and SECRET.
MailValues == {None, Str(<< >>), Str(<<"a", "@", "b">>)}
PasswdValues == {None, Str(<<"p", "w">>)}
SecretValues == {None, Str(<<"k">>)}

\* What a form may submit: a missing field is None (request.form.get).
FormMails == {None, Str(<< >>), Str(<<"a", "@", "b">>), Str(<<"A", "@", "B">>)}
FormPasswds == {None, Str(<< >>), Str(<<"p", "w">>)}

----------------------------------------------------------------------------
(* Flask: session, responses *)

EmptySession == [k \in {} |-> None]

\* session.get(key, default)
SessionGet(s, key, default) == IF key \in DOMAIN s THEN s[key] ELSE default

\* session[key] = value
SessionSet(s, key, value) ==
    [k \in DOMAIN s \cup {key} |-> IF k = key THEN value ELSE s[k]]

\* session.pop(key, None)
SessionPop(s, key) == [k \in DOMAIN s \ {key} |-> s[k]]

\* With no secret key Flask hands the handlers a NullSession: reads find it
\* empty, every write raises RuntimeError.
SessionWritable(secret) == secret # None /\ secret # Str(<< >>)

url_for(endpoint) ==
    CASE endpoint = "home" -> "/"
      [] endpoint = "login" -> "/login"
      [] endpoint = "dashboard" -> "/dashboard"

redirect(location) == [status |-> 302, kind |-> "redirect", location |-> location]

render_template(template, context) ==
    [status |-> 200, kind |-> "render", template |-> template, context |-> context]

TextBody(body) == [status |-> 200, kind |-> "text", body |-> body]

\* An exception that escapes a handler.
ServerError == [status |-> 500, kind |-> "error"]

Outcome(s, r) == [session |-> s, response |-> r]

----------------------------------------------------------------------------
(* Startup *)

\* exit(): SystemExit(None), which the interpreter turns into status 0.
ExitStatus(arg) == IF arg = None THEN 0 ELSE arg

\* Variant: the startup test joined with "and" instead of "or".
EnvMissing_and(mail, passwd) == mail = None /\ passwd = None

\* Variant: only PASSWD is tested.
EnvMissing_passwdOnly(mail, passwd) == passwd = None

EnvMissing(mail, passwd) == mail = None \/ passwd = None

Startup ==
    /\ pc = "startup"
    /\ IF EnvMissing(MAIL, PASSWD)
       THEN /\ log' = Append(log, [level |-> "CRITICAL",
                                   msg |-> "Env variable not found!!!"])
            /\ exitCode' = ExitStatus(None)
            /\ pc' = "exited"
       ELSE /\ pc' = "serving"
            /\ UNCHANGED <<log, exitCode>>
    /\ UNCHANGED <<MAIL, PASSWD, SECRET, session, request, before, response, posted>>
    /\ UNCHANGED utilVars

----------------------------------------------------------------------------
(* Handlers: each maps the session it finds and the request to the session *)
(* it leaves and the response.                                             *)

home(s, req) == Outcome(s, TextBody("hello i am a tiny pea!!!"))

\* Variant: the password is never compared.
login_noPasswdCheck(s, req, mail, passwd, secret) ==
    IF SessionGet(s, "user-mail", None) = mail
    THEN Outcome(s, redirect(url_for("dashboard")))
    ELSE IF req.method = "POST"
    THEN IF req.mail # mail
         THEN Outcome(s, render_template("login.html",
                  [showToast |-> TRUE, type |-> "error", msg |-> "Invalid User Email"]))
         ELSE IF SessionWritable(secret)
         THEN Outcome(SessionSet(s, "user-mail", req.mail), redirect(url_for("dashboard")))
         ELSE Outcome(s, ServerError)
    ELSE Outcome(s, render_template("login.html",
             [showToast |-> FALSE, type |-> "", msg |-> ""]))

\* Variant: the password is compared before the mail.
login_passwdFirst(s, req, mail, passwd, secret) ==
    IF SessionGet(s, "user-mail", None) = mail
    THEN Outcome(s, redirect(url_for("dashboard")))
    ELSE IF req.method = "POST"
    THEN IF req.passwd # passwd
         THEN Outcome(s, render_template("login.html",
                  [showToast |-> TRUE, type |-> "error", msg |-> "Invalid User Password"]))
         ELSE IF req.mail # mail
         THEN Outcome(s, render_template("login.html",
                  [showToast |-> TRUE, type |-> "error", msg |-> "Invalid User Email"]))
         ELSE IF SessionWritable(secret)
         THEN Outcome(SessionSet(s, "user-mail", req.mail), redirect(url_for("dashboard")))
         ELSE Outcome(s, ServerError)
    ELSE Outcome(s, render_template("login.html",
             [showToast |-> FALSE, type |-> "", msg |-> ""]))

\* Variant: the second toast carries the text of the first.
login_copiedMsg(s, req, mail, passwd, secret) ==
    IF SessionGet(s, "user-mail", None) = mail
    THEN Outcome(s, redirect(url_for("dashboard")))
    ELSE IF req.method = "POST"
    THEN IF req.mail # mail
         THEN Outcome(s, render_template("login.html",
                  [showToast |-> TRUE, type |-> "error", msg |-> "Invalid User Email"]))
         ELSE IF req.passwd # passwd
         THEN Outcome(s, render_template("login.html",
                  [showToast |-> TRUE, type |-> "error", msg |-> "Invalid User Email"]))
         ELSE IF SessionWritable(secret)
         THEN Outcome(SessionSet(s, "user-mail", req.mail), redirect(url_for("dashboard")))
         ELSE Outcome(s, ServerError)
    ELSE Outcome(s, render_template("login.html",
             [showToast |-> FALSE, type |-> "", msg |-> ""]))

\* Variant: no test for a session that is already logged in.
login_noShortcut(s, req, mail, passwd, secret) ==
    IF req.method = "POST"
    THEN IF req.mail # mail
         THEN Outcome(s, render_template("login.html",
                  [showToast |-> TRUE, type |-> "error", msg |-> "Invalid User Email"]))
         ELSE IF req.passwd # passwd
         THEN Outcome(s, render_template("login.html",
                  [showToast |-> TRUE, type |-> "error", msg |-> "Invalid User Password"]))
         ELSE IF SessionWritable(secret)
         THEN Outcome(SessionSet(s, "user-mail", req.mail), redirect(url_for("dashboard")))
         ELSE Outcome(s, ServerError)
    ELSE Outcome(s, render_template("login.html",
             [showToast |-> FALSE, type |-> "", msg |-> ""]))

\* Variant: the mail is stored as soon as it has matched, before the
\* password is compared.
login_storeBeforePasswd(s, req, mail, passwd, secret) ==
    IF SessionGet(s, "user-mail", None) = mail
    THEN Outcome(s, redirect(url_for("dashboard")))
    ELSE IF req.method = "POST"
    THEN IF req.mail # mail
         THEN Outcome(s, render_template("login.html",
                  [showToast |-> TRUE, type |-> "error", msg |-> "Invalid User Email"]))
         ELSE IF ~SessionWritable(secret)
         THEN Outcome(s, ServerError)
         ELSE IF req.passwd # passwd
         THEN Outcome(SessionSet(s, "user-mail", req.mail), render_template("login.html",
                  [showToast |-> TRUE, type |-> "error", msg |-> "Invalid User Password"]))
         ELSE Outcome(SessionSet(s, "user-mail", req.mail), redirect(url_for("dashboard")))
    ELSE Outcome(s, render_template("login.html",
             [showToast |-> FALSE, type |-> "", msg |-> ""]))

login(s, req, mail, passwd, secret) ==
    IF SessionGet(s, "user-mail", None) = mail
    THEN Outcome(s, redirect(url_for("dashboard")))
    ELSE IF req.method = "POST"
    THEN IF req.mail # mail
         THEN Outcome(s, render_template("login.html",
                  [showToast |-> TRUE, type |-> "error", msg |-> "Invalid User Email"]))
         ELSE IF req.passwd # passwd
         THEN Outcome(s, render_template("login.html",
                  [showToast |-> TRUE, type |-> "error", msg |-> "Invalid User Password"]))
         ELSE IF SessionWritable(secret)
         THEN Outcome(SessionSet(s, "user-mail", req.mail), redirect(url_for("dashboard")))
         ELSE Outcome(s, ServerError)
    ELSE Outcome(s, render_template("login.html",
             [showToast |-> FALSE, type |-> "", msg |-> ""]))

\* Variant: the key is not removed.
logout_noPop(s, req, secret) == Outcome(s, redirect(url_for("home")))

\* Variant: no early return, and pop without a default raises KeyError when
\* the key is absent.
logout_popNoDefault(s, req, secret) ==
    IF "user-mail" \notin DOMAIN s
    THEN Outcome(s, ServerError)
    ELSE IF SessionWritable(secret)
    THEN Outcome(SessionPop(s, "user-mail"), redirect(url_for("home")))
    ELSE Outcome(s, ServerError)

logout(s, req, secret) ==
    IF SessionGet(s, "user-mail", None) = None
    THEN Outcome(s, redirect(url_for("home")))
    ELSE IF SessionWritable(secret)
    THEN Outcome(SessionPop(s, "user-mail"), redirect(url_for("home")))
    ELSE Outcome(s, ServerError)

\* str.upper(), one character at a time.
UpperChar(ch) ==
    CASE ch = "a" -> "A"
      [] ch = "b" -> "B"
      [] ch = "x" -> "X"
      [] ch = "d" -> "D"
      [] OTHER -> ch

upper(s) == [i \in 1..Len(s) |-> UpperChar(s[i])]

\* s[lo:hi] for 0 <= lo <= hi: the slice stops at the end of s.
Slice(s, lo, hi) ==
    SubSeq(s, lo + 1, IF hi < Len(s) THEN hi ELSE Len(s))

\* Variant: the guard tests == instead of !=.
dashboard_inverted(s, req, mail) ==
    IF SessionGet(s, "user-mail", None) = mail
    THEN Outcome(s, redirect(url_for("login")))
    ELSE LET avtr == upper(Slice(SessionGet(s, "user-mail", Str(<<"X", "D">>)).str, 0, 2))
         IN  Outcome(s, render_template("dashboard.html", [avtr |-> avtr]))

\* Variant: the initials are not upper-cased.
dashboard_noUpper(s, req, mail) ==
    IF SessionGet(s, "user-mail", None) # mail
    THEN Outcome(s, redirect(url_for("login")))
    ELSE LET avtr == Slice(SessionGet(s, "user-mail", Str(<<"X", "D">>)).str, 0, 2)
         IN  Outcome(s, render_template("dashboard.html", [avtr |-> avtr]))

dashboard(s, req, mail) ==
    IF SessionGet(s, "user-mail", None) # mail
    THEN Outcome(s, redirect(url_for("login")))
    ELSE LET avtr == upper(Slice(SessionGet(s, "user-mail", Str(<<"X", "D">>)).str, 0, 2))
         IN  Outcome(s, render_template("dashboard.html", [avtr |-> avtr]))

----------------------------------------------------------------------------
(* Requests *)

Request(route, method, mail, passwd) ==
    [route |-> route, method |-> method, mail |-> mail, passwd |-> passwd]

\* Variant: the session is one dict of the process, shared by every client.
Serve_shared(c, req, out) ==
    /\ pc = "serving"
    /\ session' = [d \in Clients |-> out.session]
    /\ response' = [response EXCEPT ![c] = out.response]
    /\ request' = [request EXCEPT ![c] = req]
    /\ before' = [before EXCEPT ![c] = session[c]]
    /\ UNCHANGED <<MAIL, PASSWD, SECRET, pc, exitCode, log>>
    /\ UNCHANGED utilVars

\* One request of client c, served from start to end: Flask loads the
\* client's session from its cookie, runs the handler and stores the session.
Serve(c, req, out) ==
    /\ pc = "serving"
    /\ session' = [session EXCEPT ![c] = out.session]
    /\ response' = [response EXCEPT ![c] = out.response]
    /\ request' = [request EXCEPT ![c] = req]
    /\ before' = [before EXCEPT ![c] = session[c]]
    /\ UNCHANGED <<MAIL, PASSWD, SECRET, pc, exitCode, log>>
    /\ UNCHANGED utilVars

\* GET /
Home(c) ==
    LET req == Request("home", "GET", None, None)
    IN  /\ Serve(c, req, home(session[c], req))
        /\ UNCHANGED posted

\* GET /login, POST /login
Login(c, method, mail, passwd) ==
    LET req == Request("login", method, mail, passwd)
    IN  /\ Serve(c, req, login(session[c], req, MAIL, PASSWD, SECRET))
        /\ posted' = [posted EXCEPT ![c] =
                         @ \/ (method = "POST" /\ mail = MAIL /\ passwd = PASSWD)]

\* GET /logout
Logout(c) ==
    LET req == Request("logout", "GET", None, None)
    IN  /\ Serve(c, req, logout(session[c], req, SECRET))
        /\ posted' = [posted EXCEPT ![c] = FALSE]

\* GET /dashboard, POST /dashboard
Dashboard(c, method) ==
    LET req == Request("dashboard", method, None, None)
    IN  /\ Serve(c, req, dashboard(session[c], req, MAIL))
        /\ UNCHANGED posted

----------------------------------------------------------------------------
(* The web application *)

UtilIdle ==
    /\ fsExists = FALSE
    /\ fsEntries = {}
    /\ d_path = << >>
    /\ listing = None

Init ==
    /\ MAIL \in MailValues
    /\ PASSWD \in PasswdValues
    /\ SECRET \in SecretValues
    /\ pc = "startup"
    /\ exitCode = None
    /\ log = << >>
    /\ session = [c \in Clients |-> EmptySession]
    /\ request = [c \in Clients |-> None]
    /\ before = [c \in Clients |-> EmptySession]
    /\ response = [c \in Clients |-> None]
    /\ posted = [c \in Clients |-> FALSE]
    /\ UtilIdle

Next ==
    \/ Startup
    \/ \E c \in Clients : Home(c)
    \/ \E c \in Clients : Login(c, "GET", None, None)
    \/ \E c \in Clients, mail \in FormMails, passwd \in FormPasswds :
           Login(c, "POST", mail, passwd)
    \/ \E c \in Clients : Logout(c)
    \/ \E c \in Clients, method \in {"GET", "POST"} : Dashboard(c, method)

Spec == Init /\ [][Next]_vars

----------------------------------------------------------------------------
(* The web application, started with mails of every length up to three *)

\* Values of MAIL of length 0, 1, 2 and 3, in lower, upper and mixed case.
AvatarMails ==
    { Str(<< >>), Str(<<"b">>), Str(<<"x", "d">>), Str(<<"a", "@", "b">>),
      Str(<<"A", "b", "x">>) }

InitAvatar ==
    /\ MAIL \in AvatarMails
    /\ PASSWD \in PasswdValues \ {None}
    /\ SECRET \in SecretValues
    /\ pc = "startup"
    /\ exitCode = None
    /\ log = << >>
    /\ session = [c \in Clients |-> EmptySession]
    /\ request = [c \in Clients |-> None]
    /\ before = [c \in Clients |-> EmptySession]
    /\ response = [c \in Clients |-> None]
    /\ posted = [c \in Clients |-> FALSE]
    /\ UtilIdle

NextAvatar ==
    \/ Startup
    \/ \E c \in Clients : Home(c)
    \/ \E c \in Clients : Login(c, "GET", None, None)
    \/ \E c \in Clients, mail \in {None, MAIL}, passwd \in PasswdValues :
           Login(c, "POST", mail, passwd)
    \/ \E c \in Clients : Logout(c)
    \/ \E c \in Clients, method \in {"GET", "POST"} : Dashboard(c, method)

SpecAvatar == InitAvatar /\ [][NextAvatar]_vars

----------------------------------------------------------------------------
(* Utility.py: pathlib *)

\* The components of a path text from position i on, cur being the component
\* read so far: empty components and "." are dropped, as PurePosixPath does.
RECURSIVE Components(_, _, _)
Components(s, i, cur) ==
    LET done == IF cur = << >> \/ cur = <<".">> THEN << >> ELSE <<cur>>
    IN  IF i > Len(s) THEN done
        ELSE IF s[i] = "/" THEN done \o Components(s, i + 1, << >>)
        ELSE Components(s, i + 1, Append(cur, s[i]))

\* Path(text)
Path(s) ==
    [root |-> IF Len(s) > 0 /\ s[1] = "/" THEN <<"/">> ELSE << >>,
     parts |-> Components(s, 1, << >>)]

RECURSIVE JoinParts(_)
JoinParts(parts) ==
    IF Len(parts) = 1 THEN parts[1]
    ELSE parts[1] \o <<"/">> \o JoinParts(Tail(parts))

\* str(path)
PathStr(p) ==
    IF p.parts = << >>
    THEN IF p.root = << >> THEN <<".">> ELSE p.root
    ELSE p.root \o JoinParts(p.parts)

\* path / name
PathJoin(p, name) == [p EXCEPT !.parts = Append(@, name)]

\* fnmatch of one name against a pattern "*<literal>": the name ends with
\* the literal, a leading dot is no special case and case is kept.
Match(name, pattern) ==
    LET lit == Tail(pattern)
    IN  /\ Len(name) >= Len(lit)
        /\ SubSeq(name, Len(name) - Len(lit) + 1, Len(name)) = lit

\* Path.glob(pattern) for a pattern of one component: the entries directly
\* inside the directory, files and directories alike; none if it is missing.
Glob(p, exists, entries, pattern) ==
    IF exists
    THEN {PathJoin(p, e.name) : e \in {x \in entries : Match(x.name, pattern)}}
    ELSE {}

\* The orders in which a directory scan may yield the members of S.
Orderings(S) ==
    {f \in [1..Cardinality(S) -> S] : \A i, j \in DOMAIN f : f[i] = f[j] => i = j}

\* Variant: p.name instead of str(p).
ListConf_names(path, exists, entries) ==
    LET found == Glob(Path(path), exists, entries, <<"*", ".", "c", "o", "n", "f">>)
    IN  {[i \in DOMAIN f |-> f[i].parts[Len(f[i].parts)]] : f \in Orderings(found)}

\* ListConf(d_path): the values the list comprehension may produce.
ListConf(path, exists, entries) ==
    LET found == Glob(Path(path), exists, entries, <<"*", ".", "c", "o", "n", "f">>)
    IN  {[i \in DOMAIN f |-> PathStr(f[i])] : f \in Orderings(found)}

----------------------------------------------------------------------------
(* Utility.py: the calls *)

File(name) == [name |-> name, kind |-> "file", children |-> {}]
Dir(name, children) == [name |-> name, kind |-> "dir", children |-> children]

\* The entries a backup directory may hold.
CandidateEntries ==
    { File(<<"x", ".", "c", "o", "n", "f">>),
      File(<<"y", ".", "t", "x", "t">>),
      File(<<".", "c", "o", "n", "f">>),
      File(<<"w", ".", "c", "o", "n", "f", "s">>),
      Dir(<<"s", ".", "c", "o", "n", "f">>, {<<"z", ".", "c", "o", "n", "f">>}) }

\* The texts a caller may pass for the directory.
CandidatePaths ==
    { <<"/", "t", "/", "d">>, <<"/", "t", "/", "d", "/">>, <<"d">>, <<".">> }

\* initBKPDir(d_path): Path(d_path).mkdir(exist_ok=True)
initBKPDir ==
    /\ fsExists' = TRUE
    /\ UNCHANGED <<fsEntries, d_path, listing>>
    /\ UNCHANGED webVars

\* listing = ListConf(d_path)
CallListConf ==
    /\ listing' \in {List(l) : l \in ListConf(d_path, fsExists, fsEntries)}
    /\ UNCHANGED <<fsExists, fsEntries, d_path>>
    /\ UNCHANGED webVars

WebIdle ==
    /\ MAIL = None
    /\ PASSWD = None
    /\ SECRET = None
    /\ pc = "startup"
    /\ exitCode = None
    /\ log = << >>
    /\ session = [c \in Clients |-> EmptySession]
    /\ request = [c \in Clients |-> None]
    /\ before = [c \in Clients |-> EmptySession]
    /\ response = [c \in Clients |-> None]
    /\ posted = [c \in Clients |-> FALSE]

InitUtil ==
    /\ WebIdle
    /\ d_path \in CandidatePaths
    /\ fsExists \in BOOLEAN
    /\ fsEntries \in SUBSET CandidateEntries
    /\ ~fsExists => fsEntries = {}
    /\ listing = None

NextUtil ==
    \/ initBKPDir
    \/ CallListConf

SpecUtil == InitUtil /\ [][NextUtil]_vars

----------------------------------------------------------------------------
(* Properties of the session gate *)

Served(c) == request[c] # None

HasMail(s) == "user-mail" \in DOMAIN s

LoginPage(show, type, msg) ==
    [status |-> 200, kind |-> "render", template |-> "login.html",
     context |-> [showToast |-> show, type |-> type, msg |-> msg]]

RedirectTo(location) == [status |-> 302, kind |-> "redirect", location |-> location]

RendersDashboard(r) == r.kind = "render" /\ r.template = "dashboard.html"

\* C1: a request to /dashboard renders the dashboard page only if the
\* client has POSTed the expected mail and password to /login with no logout
\* since; in every other case it is answered with a redirect to /login.
C1_DashboardOnlyAfterLogin ==
    \A c \in Clients :
        (Served(c) /\ request[c].route = "dashboard") =>
            /\ RendersDashboard(response[c]) => posted[c]
            /\ ~posted[c] => response[c] = RedirectTo("/login")

\* One client is shown the dashboard after its login while another, which
\* has logged in and out again, is sent to /login.
C1_Witness ==
    \E c, d \in Clients :
        /\ Served(c) /\ request[c].route = "dashboard"
        /\ RendersDashboard(response[c])
        /\ Served(d) /\ request[d].route = "dashboard"
        /\ response[d] = RedirectTo("/login")

\* C2: a session's user-mail key is absent, or it holds expected_mail and
\* was written by a login that submitted the expected mail and password.
C2_UserMailVerified ==
    \A c \in Clients :
        HasMail(session[c]) => session[c]["user-mail"] = MAIL /\ posted[c]

\* A session holds user-mail.
C2_Witness ==
    \E c \in Clients : HasMail(session[c]) /\ session[c]["user-mail"] = MAIL

\* C3: POST /login on a not-authenticated session with a mail other than
\* expected_mail is answered with the "Invalid User Email" toast whatever the
\* password, and leaves the session as it was.
C3_InvalidMail ==
    \A c \in Clients :
        ( /\ Served(c)
          /\ request[c].route = "login" /\ request[c].method = "POST"
          /\ ~HasMail(before[c])
          /\ request[c].mail # MAIL ) =>
            /\ response[c] = LoginPage(TRUE, "error", "Invalid User Email")
            /\ session[c] = before[c]

\* A wrong mail was submitted with the right password, and by another client
\* with no password at all.
C3_Witness ==
    \E c, d \in Clients :
        /\ Served(c) /\ request[c].route = "login" /\ request[c].method = "POST"
        /\ request[c].mail # MAIL /\ request[c].passwd = PASSWD
        /\ response[c].kind = "render"
        /\ Served(d) /\ request[d].route = "login" /\ request[d].method = "POST"
        /\ request[d].mail # MAIL /\ request[d].passwd = None
        /\ response[d].kind = "render"

\* C4: POST /login on a not-authenticated session with the expected mail
\* and a password other than expected_password is answered with the
\* "Invalid User Password" toast and leaves the session as it was.
C4_InvalidPassword ==
    \A c \in Clients :
        ( /\ Served(c)
          /\ request[c].route = "login" /\ request[c].method = "POST"
          /\ ~HasMail(before[c])
          /\ request[c].mail = MAIL
          /\ request[c].passwd # PASSWD ) =>
            /\ response[c] = LoginPage(TRUE, "error", "Invalid User Password")
            /\ session[c] = before[c]

\* The expected mail was submitted with a wrong password.
C4_Witness ==
    \E c \in Clients :
        /\ Served(c) /\ request[c].route = "login" /\ request[c].method = "POST"
        /\ ~HasMail(before[c])
        /\ request[c].mail = MAIL /\ request[c].passwd # PASSWD
        /\ response[c].kind = "render"

\* C5: a POST /login with the expected mail and password leaves
\* session["user-mail"] = the submitted mail and redirects to /dashboard, the
\* first time and every time it is repeated.
C5_LoginSucceeds ==
    \A c \in Clients :
        ( /\ Served(c)
          /\ request[c].route = "login" /\ request[c].method = "POST"
          /\ request[c].mail = MAIL /\ request[c].passwd = PASSWD ) =>
            /\ HasMail(session[c]) /\ session[c]["user-mail"] = request[c].mail
            /\ response[c] = RedirectTo("/dashboard")
            /\ HasMail(before[c]) => session[c] = before[c]

\* The same, for the deployments that set a secret key.
C5_LoginSucceedsWithSecret == SessionWritable(SECRET) => C5_LoginSucceeds

\* C6: right after GET /logout the session has no user-mail key, and a
\* /dashboard request that follows it is redirected to /login.
C6_LogoutThenNotAuthenticated ==
    [][\A c \in Clients :
          /\ (request'[c] # None /\ request'[c].route = "logout")
                => ~HasMail(session'[c])
          /\ ( /\ Served(c) /\ request[c].route = "logout"
               /\ request'[c].route = "dashboard" )
                => response'[c] = RedirectTo("/login")]_vars

\* A client that was logged in has logged out.
C6_Witness ==
    \E c \in Clients :
        /\ Served(c) /\ request[c].route = "logout"
        /\ HasMail(before[c])
        /\ response[c] = RedirectTo("/")

\* C7: with MAIL or PASSWD missing the process logs a critical entry,
\* exits with a non-zero status and never serves a request.
C7_AbortsNonZero ==
    ((MAIL = None \/ PASSWD = None) /\ pc # "startup") =>
        /\ pc = "exited"
        /\ \E i \in DOMAIN log : log[i].level = "CRITICAL"
        /\ \A c \in Clients : ~Served(c)
        /\ exitCode # 0

\* C8 as stated: while requests are served both credentials are non-empty.
C8_CredentialsNonEmpty ==
    pc = "serving" =>
        /\ MAIL \notin {None, Str(<< >>)}
        /\ PASSWD \notin {None, Str(<< >>)}

\* C8: while requests are served both credentials are present (they may be
\* the empty string); with either of them absent the process has not started.
C8_CredentialsPresent ==
    /\ pc = "serving" => (MAIL # None /\ PASSWD # None)
    /\ (MAIL = None \/ PASSWD = None) => \A c \in Clients : ~Served(c)

\* Requests are served with an empty expected mail, and a login that
\* submitted the empty mail has set the session.
C8_Witness ==
    /\ pc = "serving"
    /\ MAIL = Str(<< >>)
    /\ \E c \in Clients : HasMail(session[c]) /\ session[c]["user-mail"] = Str(<< >>)

\* C9: a request of one client leaves every other client's session and last
\* response as they were, and two clients that make the same request on equal
\* sessions get equal responses and are left with equal sessions.
C9_SessionsIndependent ==
    /\ [][\A c \in Clients :
            (request'[c] = request[c] /\ before'[c] = before[c]) =>
                (session'[c] = session[c] /\ response'[c] = response[c])]_vars
    /\ [](\A c, d \in Clients :
            (Served(c) /\ request[c] = request[d] /\ before[c] = before[d]) =>
                (response[c] = response[d] /\ session[c] = session[d]))

\* One client is logged in while another has just failed to log in.
C9_Witness ==
    \E c, d \in Clients :
        /\ HasMail(session[c])
        /\ Served(d) /\ request[d].route = "login" /\ request[d].method = "POST"
        /\ ~HasMail(session[d])
        /\ response[d].kind = "render"

\* The part of C7 that does not speak of the exit status.
C7_AbortsLoggedNeverServes ==
    ((MAIL = None \/ PASSWD = None) /\ pc # "startup") =>
        /\ pc = "exited"
        /\ \E i \in DOMAIN log : log[i].level = "CRITICAL"
        /\ \A c \in Clients : ~Served(c)

----------------------------------------------------------------------------
(* Properties of ListConf *)

DotConf == <<".", "c", "o", "n", "f">>

\* The names directly inside the directory that end in ".conf".
ConfNames ==
    {e.name : e \in {x \in fsEntries :
        \E k \in 0..Len(x.name) : x.name = SubSeq(x.name, 1, k) \o DotConf}}

Elements(l) == {l[i] : i \in DOMAIN l}

\* What str() puts in front of the name of an entry of the directory.
DirPrefix ==
    CASE d_path = <<"/", "t", "/", "d">> -> <<"/", "t", "/", "d", "/">>
      [] d_path = <<"/", "t", "/", "d", "/">> -> <<"/", "t", "/", "d", "/">>
      [] d_path = <<"d">> -> <<"d", "/">>
      [] d_path = <<".">> -> << >>

XConf == <<"x", ".", "c", "o", "n", "f">>
YTxt == <<"y", ".", "t", "x", "t">>

\* C10 as stated: ListConf returns exactly the names of the entries
\* directly inside the directory that match *.conf, and ["x.conf"] for a
\* directory that holds x.conf and y.txt.
C10_ListConfNames ==
    listing # None =>
        /\ Elements(listing.list) = ConfNames
        /\ Len(listing.list) = Cardinality(ConfNames)
        /\ fsEntries = {File(XConf), File(YTxt)} => listing.list = <<XConf>>

\* C10: ListConf returns, in some order and each once, the paths (the
\* directory as str(Path) writes it, "/", the name; the bare name for ".") of
\* exactly the entries directly inside the directory whose names match
\* *.conf: none when there is no such entry, and ["/t/d/x.conf"] for /t/d
\* holding x.conf and y.txt.
C10_ListConfPaths ==
    listing # None =>
        /\ Elements(listing.list) = {DirPrefix \o n : n \in ConfNames}
        /\ Len(listing.list) = Cardinality(ConfNames)
        /\ (fsEntries = {File(XConf), File(YTxt)} /\ d_path = <<"/", "t", "/", "d">>)
              => listing.list = <<<<"/", "t", "/", "d", "/">> \o XConf>>
        /\ (fsEntries = {File(XConf), File(YTxt)} /\ d_path = <<".">>)
              => listing.list = <<XConf>>

\* ListConf("/t/d") was called on a directory holding x.conf and y.txt.
C10_Witness ==
    /\ d_path = <<"/", "t", "/", "d">>
    /\ fsEntries = {File(XConf), File(YTxt)}
    /\ listing = List(<<<<"/", "t", "/", "d", "/", "x", ".", "c", "o", "n", "f">>>>)

----------------------------------------------------------------------------
(* Properties of the routes *)

\* isAuthenticated(session), as login and dashboard test it.
Authenticated(s) == HasMail(s) /\ s["user-mail"] = MAIL

\* C11: GET /login and POST /login on an authenticated session are answered
\* with a redirect to /dashboard whatever the form holds, and leave the
\* session as it was.
C11_LoginWhenAuthenticated ==
    \A c \in Clients :
        (Served(c) /\ request[c].route = "login" /\ Authenticated(before[c])) =>
            /\ response[c] = RedirectTo("/dashboard")
            /\ session[c] = before[c]

\* A logged-in client POSTed a wrong mail, another a missing password, and
\* both were redirected.
C11_Witness ==
    \E c, d \in Clients :
        /\ Served(c) /\ request[c].route = "login" /\ request[c].method = "POST"
        /\ Authenticated(before[c])
        /\ request[c].mail # MAIL
        /\ response[c].kind = "redirect"
        /\ Served(d) /\ request[d].route = "login" /\ request[d].method = "POST"
        /\ Authenticated(before[d])
        /\ request[d].mail = MAIL /\ request[d].passwd = None
        /\ response[d].kind = "redirect"

\* C12: GET /logout is always answered with a redirect to /, leaves the
\* session without user-mail and changes nothing else; on a session without
\* the key it changes nothing, so a logout that follows a logout leaves the
\* same session and gives the same response.
C12_LogoutIdempotent ==
    /\ [](\A c \in Clients :
            (Served(c) /\ request[c].route = "logout") =>
                /\ response[c] = RedirectTo("/")
                /\ session[c] = EmptySession
                /\ ~HasMail(before[c]) => session[c] = before[c])
    /\ [][\A c \in Clients :
            ( /\ Served(c) /\ request[c].route = "logout"
              /\ request'[c].route = "logout"
              /\ before'[c] = session[c] ) =>
                (session'[c] = session[c] /\ response'[c] = response[c])]_vars

\* One client has logged out of a session without the key (never logged in,
\* or logged out before), another out of a logged-in session.
C12_Witness ==
    \E c, d \in Clients :
        /\ Served(c) /\ request[c].route = "logout"
        /\ ~HasMail(before[c]) /\ response[c] = RedirectTo("/")
        /\ Served(d) /\ request[d].route = "logout"
        /\ HasMail(before[d]) /\ ~HasMail(session[d])

DashboardPage(avtr) ==
    [status |-> 200, kind |-> "render", template |-> "dashboard.html",
     context |-> [avtr |-> avtr]]

\* The first two characters, upper-cased, of each mail the application may
\* be started with.
InitialsOf(mail) ==
    CASE mail = Str(<< >>) -> << >>
      [] mail = Str(<<"b">>) -> <<"B">>
      [] mail = Str(<<"x", "d">>) -> <<"X", "D">>
      [] mail = Str(<<"a", "@", "b">>) -> <<"A", "@">>
      [] mail = Str(<<"A", "b", "x">>) -> <<"A", "B">>

\* C13: on an authenticated session GET and POST /dashboard render the
\* dashboard page with avtr = the first two characters of the stored mail,
\* upper-cased: the whole upper-cased mail, unpadded, when it is shorter; the
\* page is never rendered for a session without a stored mail, so the "XD"
\* default is never what avtr is computed from.
C13_Avatar ==
    \A c \in Clients :
        (Served(c) /\ request[c].route = "dashboard") =>
            /\ Authenticated(before[c]) =>
                  /\ response[c] = DashboardPage(InitialsOf(before[c]["user-mail"]))
                  /\ Len(response[c].context.avtr) =
                        (IF Len(MAIL.str) < 2 THEN Len(MAIL.str) ELSE 2)
            /\ RendersDashboard(response[c]) => HasMail(before[c])

\* The dashboard was POSTed to with a stored mail of one character.
C13_Witness ==
    \E c \in Clients :
        /\ Served(c) /\ request[c].route = "dashboard" /\ request[c].method = "POST"
        /\ before[c] = [k \in {"user-mail"} |-> Str(<<"b">>)]
        /\ response[c] = DashboardPage(<<"B">>)

\* The last answer to client c was one of the two error toasts.
FailedAttempt(c) ==
    /\ Served(c)
    /\ request[c].route = "login" /\ request[c].method = "POST"
    /\ response[c].kind = "render"
    /\ response[c].context.showToast

\* Client c POSTs the expected mail and password in this step, is left with
\* user-mail set and is redirected to /dashboard.
CorrectLoginSucceeds(c) ==
    ( /\ request'[c].route = "login" /\ request'[c].method = "POST"
      /\ request'[c].mail = MAIL /\ request'[c].passwd = PASSWD ) =>
        /\ session'[c] = [k \in {"user-mail"} |-> MAIL]
        /\ response'[c] = RedirectTo("/dashboard")

\* C14: whatever failed attempts came before, a POST /login with the
\* expected mail and password that follows a failed attempt succeeds: it sets
\* session["user-mail"] and redirects to /dashboard.
C14_LoginAfterFailures ==
    [][\A c \in Clients : FailedAttempt(c) => CorrectLoginSucceeds(c)]_vars

\* The same, for the deployments that set a secret key.
C14_LoginAfterFailuresWithSecret ==
    [][\A c \in Clients :
          (SessionWritable(SECRET) /\ FailedAttempt(c)) => CorrectLoginSucceeds(c)]_vars

\* C15: while requests are served MAIL is set, so a session without
\* user-mail is authenticated for no handler: the tests of login (== MAIL),
\* dashboard (!= MAIL) and logout (== None) single out the same sessions, a
\* GET /login on such a session renders the login page, /dashboard redirects
\* to /login and /logout changes nothing.
C15_AbsentNotAuthenticated ==
    pc = "serving" =>
        /\ MAIL # None
        /\ \A c \in Clients :
            LET stored == SessionGet(session[c], "user-mail", None)
            IN  /\ (stored = MAIL) = HasMail(session[c])
                /\ (stored # None) = HasMail(session[c])
                /\ (Served(c) /\ ~HasMail(before[c])) =>
                      /\ (request[c].route = "login" /\ request[c].method = "GET")
                            => response[c] = LoginPage(FALSE, "", "")
                      /\ request[c].route = "dashboard"
                            => response[c] = RedirectTo("/login")
                      /\ request[c].route = "logout"
                            => (response[c] = RedirectTo("/") /\ session[c] = before[c])

\* With MAIL the empty string, a session without user-mail was shown the
\* login page on GET /login and another was redirected from /dashboard.
C15_Witness ==
    \E c, d \in Clients :
        /\ MAIL = Str(<< >>)
        /\ Served(c) /\ request[c].route = "login" /\ request[c].method = "GET"
        /\ ~HasMail(before[c]) /\ response[c] = LoginPage(FALSE, "", "")
        /\ Served(d) /\ request[d].route = "dashboard"
        /\ ~HasMail(before[d]) /\ response[d] = RedirectTo("/login")

\* The last request of client c was a POST /login on a session without
\* user-mail that was answered with the redirect to /dashboard.
LoggedIn(c) ==
    /\ request[c].route = "login" /\ request[c].method = "POST"
    /\ ~HasMail(before[c])
    /\ response[c] = RedirectTo("/dashboard")

\* The last request of client c was a GET /logout on a session that held
\* user-mail.
LoggedOut(c) == request[c].route = "logout" /\ HasMail(before[c])

\* C16: a request changes the session exactly when it is a successful
\* POST /login on a session without user-mail, which leaves user-mail =
\* expected_mail, or a GET /logout on a session that holds user-mail, which
\* leaves it without; every other request leaves the session as it found it,
\* and no step changes MAIL, PASSWD or SECRET.
C16_SessionFrame ==
    /\ [](\A c \in Clients :
            Served(c) =>
                /\ (session[c] # before[c]) = (LoggedIn(c) \/ LoggedOut(c))
                /\ LoggedIn(c) =>
                      /\ request[c].mail = MAIL /\ request[c].passwd = PASSWD
                      /\ session[c] = [k \in {"user-mail"} |-> MAIL]
                /\ LoggedOut(c) => session[c] = EmptySession)
    /\ [][ /\ MAIL' = MAIL /\ PASSWD' = PASSWD /\ SECRET' = SECRET
           /\ \A c \in Clients :
                session'[c] # session[c] => request'[c].route \in {"login", "logout"}
         ]_vars

\* One client's session was set by its login, another's was emptied by its
\* logout.
C16_Witness ==
    \E c, d \in Clients :
        /\ Served(c) /\ LoggedIn(c) /\ session[c] # before[c]
        /\ Served(d) /\ LoggedOut(d) /\ session[d] # before[d]

====
